---- MODULE Spec2Model ----
(***************************************************************************)
(* AistaiBot (src/bot.py): a Telegram bot that relays each user's text to   *)
(* a completion API, keeping one session (model code + message history)     *)
(* per user id in the module-level dict user_sessions.                      *)
(*                                                                          *)
(* Strings.  A Python str is modelled as a sequence of tokens: ":" and the  *)
(* white-space characters " " and "\n" are always tokens of their own, and  *)
(* every other token is a maximal run of other characters.  So              *)
(* "set_model:gpt4o" is <<"set_model", ":", "gpt4o">>, "" is <<>>, and      *)
(* ==, startswith, split(":", 1) and strip() are computed on the tokens.    *)
(* An optional value (None or a str) is a sequence of length 0 or 1.        *)
(*                                                                          *)
(* Scheduling.  The handlers are coroutines on one event loop.  A handler   *)
(* runs atomically between two awaits.  handle_callbacks and cmd_start      *)
(* touch the session only before their first await, so each is one action.  *)
(* handle_message touches it before and after `await create(...)`, so it is *)
(* two actions: handle_message (up to the await) and handle_message_resume  *)
(* (from the await's result to the end); other handlers may run in between. *)
(***************************************************************************)
EXTENDS Integers, Sequences, FiniteSets, TLC

VARIABLES
    user_sessions,  \* bot.py:48  dict user_id -> [model, messages]
    tasks,          \* handle_message coroutines suspended at bot.py:201, oldest first
    last,           \* history variable: the event handled by the latest step
    dialog,         \* history variable: per user, the texts received since the
                    \* history was last empty, each with the answer given to it
    nmsgs           \* number of non-empty text messages received so far

vars == <<user_sessions, tasks, last, dialog, nmsgs>>

----------------------------------------------------------------------------
(* Bounds of the model *)

\* non-empty text messages in one behaviour of Spec (two users)
MaxMsgs == 1
\* non-empty text messages in one behaviour of the one-user specifications
UserMsgs == 2
\* exchanges (user turn + assistant turn) already in u1's history in InitWindow
PrefillExchanges == 14
\* non-empty text messages in one behaviour of SpecPair (two users)
PairMsgs == 2

Users == {"u1", "u2"}

----------------------------------------------------------------------------
(* Strings and optional values *)

None == <<>>
Some(s) == <<s>>

Str(tok) == <<tok>>

IsWhitespace(tok) == tok \in {" ", "\n"}

\* str.startswith
StartsWith(s, prefix) ==
    /\ Len(s) >= Len(prefix)
    /\ SubSeq(s, 1, Len(prefix)) = prefix

\* index of the first ":" token of s, 0 when there is none
FirstColon(s) ==
    IF \E i \in 1..Len(s) : s[i] = ":"
    THEN CHOOSE i \in 1..Len(s) : s[i] = ":" /\ \A j \in 1..(i-1) : s[j] # ":"
    ELSE 0

\* mutant: s.split(":")[-1], the text after the last colon
AfterLastColon(s) ==
    IF \E i \in 1..Len(s) : s[i] = ":"
    THEN SubSeq(s, (CHOOSE i \in 1..Len(s) : s[i] = ":" /\ \A j \in (i+1)..Len(s) : s[j] # ":") + 1,
                Len(s))
    ELSE s

\* the second element of s.split(":", 1), for s containing a ":"
AfterFirstColon(s) == SubSeq(s, FirstColon(s) + 1, Len(s))

\* str.strip()
RECURSIVE LStrip(_)
LStrip(s) == IF s # <<>> /\ IsWhitespace(Head(s)) THEN LStrip(Tail(s)) ELSE s

RECURSIVE RStrip(_)
RStrip(s) ==
    IF s # <<>> /\ IsWhitespace(s[Len(s)]) THEN RStrip(SubSeq(s, 1, Len(s) - 1)) ELSE s

Strip(s) == RStrip(LStrip(s))

----------------------------------------------------------------------------
(* Program constants *)

max_messages == 30

DefaultModelCode == Str("gpt4o")

WarningText == Str("warning: error while calling the model")

----------------------------------------------------------------------------
(* Session store *)

\* mutant: the default is the provider id gpt-4o, not the model code gpt4o
NewSessionProviderId == [model |-> Str("gpt-4o"), messages |-> <<>>]

NewSession == [model |-> DefaultModelCode, messages |-> <<>>]

\* mutant: the lookup stores a fresh session whether or not one exists
get_user_session_reset(store, user_id) ==
    [u \in DOMAIN store \cup {user_id} |->
        IF u = user_id THEN [model |-> DefaultModelCode, messages |-> <<>>] ELSE store[u]]

\* the store after get_user_session(user_id); the session returned is store[user_id]
get_user_session(store, user_id) ==
    IF user_id \notin DOMAIN store
    THEN [u \in DOMAIN store \cup {user_id} |->
            IF u = user_id THEN NewSession ELSE store[u]]
    ELSE store

\* mutant: the request is always made with the default provider id
map_model_code_to_default(model_code) == Str("gpt-4o")

\* mutant: the gpt5_syncing line is missing
map_model_code_without_syncing(model_code) ==
    IF model_code = Str("gpt5_instance") THEN Str("gpt-4o-mini")
    ELSE Str("gpt-4o")

map_model_code_to_openai_id(model_code) ==
    IF model_code = Str("gpt5_instance") THEN Str("gpt-4o-mini")
    ELSE IF model_code = Str("gpt5_syncing") THEN Str("gpt-4.1")
    ELSE IF model_code = Str("gpt4o") THEN Str("gpt-4o")
    ELSE Str("gpt-4o")

Turn(role, content) == [role |-> role, content |-> content]

\* mutant: the slice keeps the oldest entries, messages[:max_messages]
TruncateKeepOldest(messages) ==
    IF Len(messages) > max_messages THEN SubSeq(messages, 1, max_messages) ELSE messages

\* bot.py:196-198
Truncate(messages) ==
    IF Len(messages) > max_messages
    THEN SubSeq(messages, Len(messages) - max_messages + 1, Len(messages))
    ELSE messages

----------------------------------------------------------------------------
(* Keyboards: a markup is the sequence of its buttons *)

Button(text, callback_data) == [text |-> text, callback_data |-> callback_data]

main_menu ==
    << Button(Str("Change model"), Str("change_model")),
       Button(Str("New chat"), Str("new_chat")),
       Button(Str("About bot"), Str("about_bot")) >>

ModelTitles ==
    << [title |-> Str("GPT-5 Instance"), code |-> Str("gpt5_instance")],
       [title |-> Str("GPT-5 Syncing"), code |-> Str("gpt5_syncing")],
       [title |-> Str("GPT-4o"), code |-> Str("gpt4o")] >>

\* mutant: the model buttons carry model:<code>
model_menu_other_prefix(current_model) ==
    [i \in 1..Len(ModelTitles) |->
        Button(IF ModelTitles[i].code = current_model
               THEN <<"checked", " ">> \o ModelTitles[i].title
               ELSE ModelTitles[i].title,
               <<"model", ":">> \o ModelTitles[i].code)]
    \o << Button(Str("Back"), Str("back_to_menu")) >>

model_menu(current_model) ==
    [i \in 1..Len(ModelTitles) |->
        Button(IF ModelTitles[i].code = current_model
               THEN <<"checked", " ">> \o ModelTitles[i].title
               ELSE ModelTitles[i].title,
               <<"set_model", ":">> \o ModelTitles[i].code)]
    \o << Button(Str("Back"), Str("back_to_menu")) >>

\* reply_markup as the call that builds it; Keyboard gives its buttons
MainMenu == [menu |-> "main_menu", current_model |-> None]
ModelMenu(current_model) == [menu |-> "model_menu", current_model |-> Some(current_model)]

Keyboard(markup) ==
    IF markup.menu = "main_menu" THEN main_menu ELSE model_menu(markup.current_model[1])

\* name_map.get(model_code, model_code), bot.py:164-169
model_name(model_code) ==
    IF \E i \in 1..Len(ModelTitles) : ModelTitles[i].code = model_code
    THEN (CHOOSE m \in {ModelTitles[i] : i \in 1..Len(ModelTitles)} :
            m.code = model_code).title
    ELSE model_code

----------------------------------------------------------------------------
(* Inputs *)

\* callback.data: None or a payload
CallbackData ==
    { None,
      Some(Str("change_model")), Some(Str("new_chat")), Some(Str("about_bot")),
      Some(Str("back_to_menu")),
      Some(<<"set_model", ":", "gpt5_instance">>),
      Some(<<"set_model", ":", "gpt5_syncing">>),
      Some(<<"set_model", ":", "gpt4o">>),
      Some(<<"set_model", ":", "bogus", ":", "v2">>),
      Some(<<"set_model">>),
      Some(<<"new_chat", ":", "x">>) }

\* message.text: None (a photo, a sticker), "" or a text
MessageTexts == { None, Some(<<>>), Some(Str("hi")) }

\* the texts of SpecSerial, where handlers do not overlap and a second text is cheap
SerialTexts == MessageTexts \cup { Some(Str("hello")) }

\* what `await client.chat.completions.create(...)` gives: an exception, or a
\* completion whose first choice has content None or a str
CompletionResults ==
    { [raised |-> TRUE,  content |-> None],
      [raised |-> FALSE, content |-> None],
      [raised |-> FALSE, content |-> Some(Str("ok"))],
      [raised |-> FALSE, content |-> Some(<<" ", "ok", "\n">>)] }

----------------------------------------------------------------------------
(* History variables *)

\* the handler that ran, for whom, the branch it took and what it sent
Event(handler, user, branch, reply, markup) ==
    [handler |-> handler, user |-> user, branch |-> branch,
     reply |-> reply, markup |-> markup]

NoEvent == Event("none", "none", "none", None, None)

\* the turns of a dialog in order of arrival: each text, then its answer if given
RECURSIVE Flatten(_)
Flatten(d) ==
    IF d = <<>> THEN <<>>
    ELSE << Turn("user", Head(d).text) >>
         \o ( IF Head(d).answer = None THEN <<>>
              ELSE << Turn("assistant", Head(d).answer[1]) >> )
         \o Flatten(Tail(d))

\* after new_chat the suspended handlers of the user answer no text of the dialog
Orphan(ts, user_id) ==
    [i \in 1..Len(ts) |-> IF ts[i].user_id = user_id THEN [ts[i] EXCEPT !.k = 0] ELSE ts[i]]

RemoveAt(s, i) == SubSeq(s, 1, i - 1) \o SubSeq(s, i + 1, Len(s))

----------------------------------------------------------------------------
(* Handlers *)

\* bot.py:102-113
cmd_start(user_id) ==
    /\ user_sessions' = get_user_session(user_sessions, user_id)
    /\ last' = Event("cmd_start", user_id, "start",
                     Some(Str("welcome")), Some(MainMenu))
    /\ UNCHANGED <<tasks, dialog, nmsgs>>

\* mutant: set_model is recognized by data.startswith("set_model")
CallbackBranchLoosePrefix(data) ==
    IF data = Str("change_model") THEN "change_model"
    ELSE IF data = Str("new_chat") THEN "new_chat"
    ELSE IF data = Str("about_bot") THEN "about_bot"
    ELSE IF data = Str("back_to_menu") THEN "back_to_menu"
    ELSE IF StartsWith(data, <<"set_model">>) THEN "set_model"
    ELSE "default"

\* the branch of handle_callbacks that data (after `or ""`) takes, bot.py:123-178
CallbackBranch(data) ==
    IF data = Str("change_model") THEN "change_model"
    ELSE IF data = Str("new_chat") THEN "new_chat"
    ELSE IF data = Str("about_bot") THEN "about_bot"
    ELSE IF data = Str("back_to_menu") THEN "back_to_menu"
    ELSE IF StartsWith(data, <<"set_model", ":">>) THEN "set_model"
    ELSE "default"

\* mutant: new_chat replaces the whole session by a fresh one
CallbackStoreResetSession(store, user_id, data) ==
    LET created == get_user_session(store, user_id)
        branch == CallbackBranch(data)
    IN  IF branch = "new_chat"
        THEN [created EXCEPT ![user_id] = NewSession]
        ELSE IF branch = "set_model"
        THEN [created EXCEPT ![user_id].model = AfterFirstColon(data)]
        ELSE created

\* mutant: choosing a model starts a new conversation
CallbackStoreSetModelClears(store, user_id, data) ==
    LET created == get_user_session(store, user_id)
        branch == CallbackBranch(data)
    IN  IF branch = "new_chat"
        THEN [created EXCEPT ![user_id].messages = <<>>]
        ELSE IF branch = "set_model"
        THEN [created EXCEPT ![user_id] =
                 [model |-> AfterFirstColon(data), messages |-> <<>>]]
        ELSE created

\* mutant: new_chat clears the history of every session
CallbackStoreClearAll(store, user_id, data) ==
    LET created == get_user_session(store, user_id)
        branch == CallbackBranch(data)
    IN  IF branch = "new_chat"
        THEN [u \in DOMAIN created |-> [created[u] EXCEPT !.messages = <<>>]]
        ELSE IF branch = "set_model"
        THEN [created EXCEPT ![user_id].model = AfterFirstColon(data)]
        ELSE created

\* mutant: new_chat drops the session of the sender, user_sessions.pop(user_id)
CallbackStorePopSession(store, user_id, data) ==
    LET created == get_user_session(store, user_id)
        branch == CallbackBranch(data)
    IN  IF branch = "new_chat"
        THEN [u \in DOMAIN created \ {user_id} |-> created[u]]
        ELSE IF branch = "set_model"
        THEN [created EXCEPT ![user_id].model = AfterFirstColon(data)]
        ELSE created

\* the session store after handle_callbacks, bot.py:119-162
CallbackStore(store, user_id, data) ==
    LET created == get_user_session(store, user_id)
        branch == CallbackBranch(data)
    IN  IF branch = "new_chat"
        THEN [created EXCEPT ![user_id].messages = <<>>]
        ELSE IF branch = "set_model"
        THEN [created EXCEPT ![user_id].model = AfterFirstColon(data)]
        ELSE created

\* the text handle_callbacks edits the message to; None in the default branch
CallbackReply(store, user_id, data) ==
    LET branch == CallbackBranch(data)
    IN  IF branch = "change_model" THEN Some(Str("choose a model"))
        ELSE IF branch = "new_chat" THEN Some(Str("started a new chat"))
        ELSE IF branch = "about_bot" THEN Some(Str("about"))
        ELSE IF branch = "back_to_menu" THEN Some(Str("main menu"))
        ELSE IF branch = "set_model"
        THEN Some(<<"model changed to", ":", " ">> \o model_name(store[user_id].model))
        ELSE None

CallbackMarkup(store, user_id, data) ==
    LET branch == CallbackBranch(data)
    IN  IF branch = "change_model" THEN Some(ModelMenu(store[user_id].model))
        ELSE IF branch = "default" THEN None
        ELSE Some(MainMenu)

\* bot.py:116-178
handle_callbacks(user_id, callback_data) ==
    LET data == IF callback_data = None THEN <<>> ELSE callback_data[1]
        branch == CallbackBranch(data)
        store == CallbackStore(user_sessions, user_id, data)
    IN  /\ user_sessions' = store
        /\ tasks' = IF branch = "new_chat" THEN Orphan(tasks, user_id) ELSE tasks
        /\ dialog' = IF branch = "new_chat" THEN [dialog EXCEPT ![user_id] = <<>>]
                     ELSE dialog
        /\ last' = Event("handle_callbacks", user_id, branch,
                         CallbackReply(store, user_id, data),
                         CallbackMarkup(store, user_id, data))
        /\ UNCHANGED nmsgs

\* mutant: `message.text is None`
IsNone(text) == text = None

\* `not message.text`, bot.py:183
IsFalsy(text) == IF text = None THEN TRUE ELSE text[1] = <<>>

\* mutant: a text that arrives while the last turn is an unanswered user turn
\* replaces that turn
AppendUserTurnReplacePending(messages, text) ==
    IF messages # <<>> /\ messages[Len(messages)].role = "user"
    THEN Truncate([messages EXCEPT ![Len(messages)] = Turn("user", text)])
    ELSE Truncate(Append(messages, Turn("user", text)))

\* mutant: the history is truncated before the user turn is appended
AppendUserTurnTruncateFirst(messages, text) ==
    Append(Truncate(messages), Turn("user", text))

\* session["messages"] after bot.py:193-198
AppendUserTurn(messages, text) == Truncate(Append(messages, Turn("user", text)))

\* bot.py:181-205: from the start of the handler to `await create(...)`
handle_message(user_id, message_text) ==
    IF IsFalsy(message_text)
    THEN /\ last' = Event("handle_message", user_id, "ignored", None, None)
         /\ UNCHANGED <<user_sessions, tasks, dialog, nmsgs>>
    ELSE LET text == message_text[1]
             created == get_user_session(user_sessions, user_id)
             model_code == created[user_id].model
             openai_model_id == map_model_code_to_openai_id(model_code)
             messages == AppendUserTurn(created[user_id].messages, text)
         IN  /\ nmsgs' = nmsgs + 1
             /\ user_sessions' = [created EXCEPT ![user_id].messages = messages]
             /\ tasks' = Append(tasks, [user_id |-> user_id, text |-> text,
                                        model_code |-> model_code,
                                        openai_model_id |-> openai_model_id,
                                        request |-> messages,
                                        k |-> Len(dialog[user_id]) + 1])
             /\ dialog' = [dialog EXCEPT ![user_id] =
                              Append(@, [text |-> text, answer |-> None])]
             /\ last' = Event("handle_message", user_id, "await", None, None)

\* the completion call failed: create raised, or .content.strip() did, bot.py:207
Failed(result) == result.raised \/ result.content = None

\* mutant: the except branch leaves the answer empty
AnswerEmptyOnFailure(result) == IF Failed(result) THEN <<>> ELSE Strip(result.content[1])

\* mutant: the content is sent as received, without .strip()
AnswerUntrimmed(result) == IF Failed(result) THEN WarningText ELSE result.content[1]

\* answer after the try/except, bot.py:206-212
Answer(result) == IF Failed(result) THEN WarningText ELSE Strip(result.content[1])

\* mutant: the warning text is not saved as an assistant turn
AppendAssistantTurnUnlessWarning(messages, answer) ==
    IF answer = WarningText THEN messages ELSE Append(messages, Turn("assistant", answer))

\* session["messages"] after bot.py:215
AppendAssistantTurn(messages, answer) == Append(messages, Turn("assistant", answer))

\* bot.py:206-217: from the result of `await create(...)` to the end of the handler
handle_message_resume(i, result) ==
    LET t == tasks[i]
        answer == Answer(result)
    IN  /\ user_sessions' = [user_sessions EXCEPT ![t.user_id].messages =
                                AppendAssistantTurn(@, answer)]
        /\ tasks' = RemoveAt(tasks, i)
        /\ dialog' = IF t.k > 0
                     THEN [dialog EXCEPT ![t.user_id][t.k].answer = Some(answer)]
                     ELSE dialog
        /\ last' = Event("handle_message", t.user_id,
                         IF Failed(result) THEN "except" ELSE "try",
                         Some(answer), Some(MainMenu))
        /\ UNCHANGED nmsgs

----------------------------------------------------------------------------
(* Specifications *)

\* the module as loaded: no session, no handler running
Init ==
    /\ user_sessions = << >>
    /\ tasks = << >>
    /\ last = NoEvent
    /\ dialog = [u \in Users |-> << >>]
    /\ nmsgs = 0

\* Every interleaving of the handlers of two users
Next ==
    \/ \E u \in Users : cmd_start(u)
    \/ \E u \in Users, d \in CallbackData : handle_callbacks(u, d)
    \/ \E u \in Users, t \in MessageTexts :
          (IF IsFalsy(t) THEN TRUE ELSE nmsgs < MaxMsgs) /\ handle_message(u, t)
    \/ \E i \in 1..Len(tasks), r \in CompletionResults : handle_message_resume(i, r)

Spec == Init /\ [][Next]_vars

\* Every interleaving of the handlers of one user
NextUser ==
    \/ cmd_start("u1")
    \/ \E d \in CallbackData : handle_callbacks("u1", d)
    \/ \E t \in MessageTexts :
          (IF IsFalsy(t) THEN TRUE ELSE nmsgs < UserMsgs) /\ handle_message("u1", t)
    \/ \E i \in 1..Len(tasks), r \in CompletionResults : handle_message_resume(i, r)

SpecUser == Init /\ [][NextUser]_vars

\* some suspended handler gets the outcome of its completion call
CompletionReturns ==
    \E i \in 1..Len(tasks), r \in CompletionResults : handle_message_resume(i, r)

\* One user, and no completion call hangs for ever: the event loop resumes a
\* handler once its call has returned or raised
SpecUserFair == Init /\ [][NextUser]_vars /\ WF_vars(CompletionReturns)

\* The i-th exchange of a long conversation: texts and answers all different
PastText(i) == <<"question", " ", ToString(i)>>
PastAnswer(i) == <<"answer", " ", ToString(i)>>
PastDialog(n) == [i \in 1..n |-> [text |-> PastText(i), answer |-> Some(PastAnswer(i))]]

\* u1 has had PrefillExchanges texts answered one after the other, and nothing
\* else has happened: the state after that many runs of handle_message and
\* handle_message_resume from Init
InitWindow ==
    /\ user_sessions = [u \in {"u1"} |->
                          [model |-> DefaultModelCode,
                           messages |-> Flatten(PastDialog(PrefillExchanges))]]
    /\ tasks = << >>
    /\ last = NoEvent
    /\ dialog = [u \in Users |-> IF u = "u1" THEN PastDialog(PrefillExchanges) ELSE << >>]
    /\ nmsgs = 0

\* One user whose history is about to reach max_messages
SpecWindow == InitWindow /\ [][NextUser]_vars

\* u1 has chosen gpt5_syncing and had one text answered; u2 is not known yet
InitPair ==
    /\ user_sessions = [u \in {"u1"} |->
                          [model |-> Str("gpt5_syncing"),
                           messages |-> Flatten(PastDialog(1))]]
    /\ tasks = << >>
    /\ last = NoEvent
    /\ dialog = [u \in Users |-> IF u = "u1" THEN PastDialog(1) ELSE << >>]
    /\ nmsgs = 0

\* callback.data of the two-user runs from InitPair: no payload, and one
\* payload for each branch that writes to the store or reads it
PairCallbackData ==
    { None, Some(Str("change_model")), Some(Str("new_chat")),
      Some(<<"set_model", ":", "gpt5_instance">>) }

NextPair ==
    \/ \E u \in Users : cmd_start(u)
    \/ \E u \in Users, d \in PairCallbackData : handle_callbacks(u, d)
    \/ \E u \in Users, t \in MessageTexts :
          (IF IsFalsy(t) THEN TRUE ELSE nmsgs < PairMsgs) /\ handle_message(u, t)
    \/ \E i \in 1..Len(tasks), r \in CompletionResults : handle_message_resume(i, r)

\* Two users, one of them with a conversation under way
SpecPair == InitPair /\ [][NextPair]_vars

\* One user whose events are handled one at a time: a handler starts only when
\* no handle_message is suspended
NextSerial ==
    \/ tasks = << >> /\ cmd_start("u1")
    \/ \E d \in CallbackData : tasks = << >> /\ handle_callbacks("u1", d)
    \/ \E t \in SerialTexts :
          /\ tasks = << >>
          /\ IF IsFalsy(t) THEN TRUE ELSE nmsgs < UserMsgs
          /\ handle_message("u1", t)
    \/ \E i \in 1..Len(tasks), r \in CompletionResults : handle_message_resume(i, r)

SpecSerial == (Init \/ InitWindow) /\ [][NextSerial]_vars

----------------------------------------------------------------------------
(* Helpers of the properties *)

HasSession(u) == u \in DOMAIN user_sessions

\* the step is a run of handle_callbacks, or a run of handle_message up to its
\* return or its await, for the user last'.user
IsCallbackStep == last'.handler = "handle_callbacks"
IsMessageStep == last'.handler = "handle_message" /\ last'.branch \in {"ignored", "await"}

\* that run, with the given input
CallbackStep(u, d) == handle_callbacks(u, d)
MessageStep(u, t) == handle_message(u, t)

\* payloads that are none of the four menu payloads and do not start with set_model:
UnknownPayloads == { None, Some(<<"set_model">>), Some(<<"new_chat", ":", "x">>) }

\* message.text of an event without text
FalsyTexts == { None, Some(<<>>) }

\* the set_model payloads of CallbackData with the code each carries
SetModelCases ==
    { [data |-> <<"set_model", ":", "gpt5_instance">>, code |-> <<"gpt5_instance">>],
      [data |-> <<"set_model", ":", "gpt5_syncing">>, code |-> <<"gpt5_syncing">>],
      [data |-> <<"set_model", ":", "gpt4o">>, code |-> <<"gpt4o">>],
      [data |-> <<"set_model", ":", "bogus", ":", "v2">>, code |-> <<"bogus", ":", "v2">>] }

----------------------------------------------------------------------------
(* C1 *)

\* C1: in every reachable state the history of every session has at most 30
\* entries.  (Stated as claimed; the code breaks it: the assistant turn is
\* appended at bot.py:215 after the truncation of bot.py:197-198.)
C1_HistoryAtMost30 ==
    \A u \in DOMAIN user_sessions : Len(user_sessions[u].messages) <= 30

----------------------------------------------------------------------------
(* C2 *)

C2_LookupInvariant ==
    \A u \in Users :
        LET once == get_user_session(user_sessions, u)
            twice == get_user_session(once, u)
        IN  /\ twice = once
            /\ DOMAIN once = DOMAIN user_sessions \cup {u}
            /\ \A v \in DOMAIN user_sessions : once[v] = user_sessions[v]
            /\ u \notin DOMAIN user_sessions =>
                  once[u] = [model |-> <<"gpt4o">>, messages |-> <<>>]

\* a handler that only looks the session up (cmd_start) leaves every existing
\* session as it was and gives a new user the default session
C2_LookupStep ==
    last'.handler = "cmd_start" =>
        /\ DOMAIN user_sessions' = DOMAIN user_sessions \cup {last'.user}
        /\ \A v \in DOMAIN user_sessions : user_sessions'[v] = user_sessions[v]
        /\ last'.user \notin DOMAIN user_sessions =>
              user_sessions'[last'.user] = [model |-> <<"gpt4o">>, messages |-> <<>>]

\* C2: get_user_session is idempotent: for a user without a session it creates
\* one with modelCode gpt4o and empty history; for a user with a session it
\* changes nothing (the second of two lookups never changes the store, the
\* other users' sessions are untouched, there is one session per user id).
C2_GetUserSessionIdempotent == []C2_LookupInvariant /\ [][C2_LookupStep]_vars

\* a lookup (cmd_start) has run for a user whose session has a changed model
\* and a non-empty history, and both are still there
C2_Witness ==
    /\ last.handler = "cmd_start"
    /\ HasSession(last.user)
    /\ user_sessions[last.user].model # <<"gpt4o">>
    /\ user_sessions[last.user].messages # <<>>

----------------------------------------------------------------------------
(* C3 *)

\* C3 as claimed: in every reachable state the modelCode of every session is
\* one of the registry keys gpt5_instance, gpt5_syncing, gpt4o.
C3_ModelCodeIsRegistryKey ==
    \A u \in DOMAIN user_sessions :
        user_sessions[u].model \in {<<"gpt5_instance">>, <<"gpt5_syncing">>, <<"gpt4o">>}

C3_IsKey(code) == code \in {<<"gpt5_instance">>, <<"gpt5_syncing">>, <<"gpt4o">>}

C3_InvalidOnlyBySetModel ==
    \A u \in DOMAIN user_sessions' :
        ( /\ ~C3_IsKey(user_sessions'[u].model)
          /\ (u \in DOMAIN user_sessions => C3_IsKey(user_sessions[u].model)) )
        => /\ last'.handler = "handle_callbacks"
           /\ last'.branch = "set_model"
           /\ last'.user = u

\* C3 (amended): a session is created with a registry key as its modelCode, and
\* the modelCode stays a registry key in every step except a set_model:<code>
\* callback of that user, which stores <code> without validating it.
C3_RegistryKeyUnlessSetModel == [][C3_InvalidOnlyBySetModel]_vars

\* a set_model callback with a recognized code has just been handled for a
\* session that had left the default
C3_Witness ==
    /\ last.handler = "handle_callbacks"
    /\ last.branch = "set_model"
    /\ HasSession(last.user)
    /\ user_sessions[last.user].model = <<"gpt5_syncing">>

----------------------------------------------------------------------------
(* C4 *)

C4_SetModelStores ==
    IsCallbackStep =>
        LET u == last'.user
        IN  \A c \in SetModelCases :
                CallbackStep(u, Some(c.data)) => user_sessions'[u].model = c.code

C4_UnrecognizedStillServed ==
    IsMessageStep =>
        LET u == last'.user
        IN  ( /\ u \in DOMAIN user_sessions
              /\ ~C3_IsKey(user_sessions[u].model)
              /\ \E t \in MessageTexts : ~IsFalsy(t) /\ MessageStep(u, t) )
            => /\ Len(tasks') = Len(tasks) + 1
               /\ tasks'[Len(tasks')].user_id = u
               /\ tasks'[Len(tasks')].openai_model_id = <<"gpt-4o">>
               /\ user_sessions'[u].model = user_sessions[u].model

\* C4: a set_model:<code> callback sets the sender's modelCode to the text
\* after the first colon, recognized or not; a text message of a session with
\* an unrecognized modelCode is sent to the completion API with the default
\* provider id gpt-4o.
C4_SetModelUnvalidated == [][C4_SetModelStores /\ C4_UnrecognizedStillServed]_vars

\* a text of a session whose modelCode is the unrecognized bogus:v2 has been
\* handed to the completion API
C4_Witness ==
    /\ last.handler = "handle_message"
    /\ last.branch = "await"
    /\ user_sessions[last.user].model = <<"bogus", ":", "v2">>
    /\ tasks[Len(tasks)].openai_model_id = <<"gpt-4o">>

----------------------------------------------------------------------------
(* C5 *)

C5_Table(code) ==
    CASE code = <<"gpt5_instance">> -> <<"gpt-4o-mini">>
      [] code = <<"gpt5_syncing">> -> <<"gpt-4.1">>
      [] OTHER -> <<"gpt-4o">>

C5_OtherStrings ==
    { <<>>, <<"bogus">>, <<"gpt4o", " ">>, <<"GPT4O">>, <<"gpt-4o-mini">>,
      <<"gpt5_instance", ":", "x">>, <<"set_model", ":", "gpt5_syncing">> }

\* C5: map_model_code_to_openai_id maps gpt5_instance to gpt-4o-mini,
\* gpt5_syncing to gpt-4.1, gpt4o and every other string (the empty one too) to
\* gpt-4o: so for the modelCode of every session and of every request in
\* flight, and for a set of other strings.
C5_ResolveTotal ==
    /\ \A u \in DOMAIN user_sessions :
          map_model_code_to_openai_id(user_sessions[u].model)
              = C5_Table(user_sessions[u].model)
    /\ \A i \in 1..Len(tasks) :
          tasks[i].openai_model_id = C5_Table(tasks[i].model_code)
    /\ \A c \in C5_OtherStrings : map_model_code_to_openai_id(c) = <<"gpt-4o">>

\* requests are in flight for two model codes that resolve differently
C5_Witness ==
    /\ Len(tasks) = 2
    /\ tasks[1].model_code = <<"gpt5_syncing">>
    /\ tasks[1].openai_model_id = <<"gpt-4.1">>
    /\ tasks[2].model_code = <<"gpt5_instance">>
    /\ tasks[2].openai_model_id = <<"gpt-4o-mini">>

----------------------------------------------------------------------------
(* C6 *)

C6_NewChatStep ==
    IsCallbackStep =>
        LET u == last'.user
        IN  CallbackStep(u, Some(<<"new_chat">>)) =>
                /\ user_sessions'[u].messages = <<>>
                /\ user_sessions'[u].model =
                      (IF u \in DOMAIN user_sessions THEN user_sessions[u].model
                       ELSE <<"gpt4o">>)

\* C6: handling a new_chat callback of a user sets that user's history to
\* empty and leaves that user's modelCode as it was (gpt4o for a new user).
C6_NewChatClearsHistoryOnly == [][C6_NewChatStep]_vars

\* new_chat has just been handled for a user who had changed the model and
\* whose texts had all been answered: the history is empty, the model is kept
C6_Witness ==
    /\ last.handler = "handle_callbacks"
    /\ last.branch = "new_chat"
    /\ nmsgs > 0
    /\ tasks = <<>>
    /\ user_sessions[last.user].messages = <<>>
    /\ user_sessions[last.user].model = <<"gpt5_instance">>

----------------------------------------------------------------------------
(* C7 *)

C7_Warning == <<"warning: error while calling the model">>

\* the step that handles a failed completion call
C7_FailureStep ==
    last'.branch = "except" =>
        LET u == last'.user
        IN  /\ last'.reply = Some(C7_Warning)
            /\ DOMAIN user_sessions' = DOMAIN user_sessions
            /\ user_sessions'[u].messages =
                  Append(user_sessions[u].messages, Turn("assistant", C7_Warning))
            /\ user_sessions'[u].model = user_sessions[u].model
            /\ Len(tasks') = Len(tasks) - 1

\* one text was received, on a fresh session, and its completion call failed
C7_FreshFailure(u) ==
    /\ nmsgs = 1
    /\ tasks = <<>>
    /\ Len(dialog[u]) = 1
    /\ dialog[u][1].answer = Some(C7_Warning)

C7_FreshSession ==
    \A u \in DOMAIN user_sessions :
        C7_FreshFailure(u) =>
            user_sessions[u].messages =
                << Turn("user", dialog[u][1].text), Turn("assistant", C7_Warning) >>

\* a text received when the latest turn is a warning is handled like any other
C7_NextMessageStep ==
    IsMessageStep =>
        LET u == last'.user
        IN  \A t \in MessageTexts :
                ( /\ ~IsFalsy(t)
                  /\ u \in DOMAIN user_sessions
                  /\ user_sessions[u].messages # <<>>
                  /\ user_sessions[u].messages[Len(user_sessions[u].messages)]
                        = Turn("assistant", C7_Warning)
                  /\ Len(user_sessions[u].messages) < 30
                  /\ MessageStep(u, t) )
                => /\ user_sessions'[u].messages =
                         Append(user_sessions[u].messages, Turn("user", t[1]))
                   /\ user_sessions'[u].model = user_sessions[u].model
                   /\ Len(tasks') = Len(tasks) + 1
                   /\ tasks'[Len(tasks')].request = user_sessions'[u].messages

\* C7: when the completion call fails the reply is the fixed warning text, the
\* history gains an assistant turn holding that text after the user turn (on
\* a fresh session: exactly those 2 entries), modelCode is unchanged, no
\* session is removed or reset, and the next text is processed as usual.
C7_FailureIsAnswered ==
    /\ []C7_FreshSession
    /\ [][C7_FailureStep /\ C7_NextMessageStep]_vars

\* after a failed call, the next text of the same user was sent and answered
C7_Witness ==
    /\ tasks = <<>>
    /\ Len(dialog["u1"]) = 2
    /\ dialog["u1"][1].answer = Some(C7_Warning)
    /\ dialog["u1"][2].answer = Some(<<"ok">>)
    /\ Len(user_sessions["u1"].messages) = 4
    /\ user_sessions["u1"].messages[2] = Turn("assistant", C7_Warning)
    /\ user_sessions["u1"].messages[4] = Turn("assistant", <<"ok">>)

----------------------------------------------------------------------------
(* C8 *)

\* C8 as claimed: a callback with an unknown or absent payload changes nothing:
\* the store holds the same sessions after it as before, for every sender.
C8_UnknownPayloadNoChange ==
    [][IsCallbackStep =>
          ( (\E d \in UnknownPayloads : CallbackStep(last'.user, d))
            => user_sessions' = user_sessions )]_vars

C8_UnknownStep ==
    IsCallbackStep =>
        LET u == last'.user
        IN  (\E d \in UnknownPayloads : CallbackStep(u, d)) =>
                /\ DOMAIN user_sessions' = DOMAIN user_sessions \cup {u}
                /\ \A v \in DOMAIN user_sessions : user_sessions'[v] = user_sessions[v]
                /\ u \notin DOMAIN user_sessions =>
                      user_sessions'[u] = [model |-> <<"gpt4o">>, messages |-> <<>>]
                /\ tasks' = tasks
                /\ last'.reply = None

\* C8 (amended): a callback with an unknown or absent payload changes the
\* modelCode and history of no existing session and sends no text; its only
\* effect on the store is the default session (gpt4o, empty history) it
\* creates for a sender that has none.
C8_UnknownPayloadOnlyCreates == [][C8_UnknownStep]_vars

\* an unknown payload has just been handled for a user with a changed model
\* and a non-empty history
C8_Witness ==
    /\ last.handler = "handle_callbacks"
    /\ last.branch = "default"
    /\ user_sessions[last.user].model = <<"gpt5_instance">>
    /\ user_sessions[last.user].messages # <<>>

----------------------------------------------------------------------------
(* C9 *)

C9_EmptyTextStep ==
    IsMessageStep =>
        ( (\E t \in FalsyTexts : MessageStep(last'.user, t)) =>
            /\ user_sessions' = user_sessions
            /\ tasks' = tasks
            /\ last'.reply = None
            /\ last'.markup = None )

\* C9: a message whose text is empty or absent is ignored: no reply, no
\* completion call, no session created, no session changed.
C9_EmptyTextIgnored == [][C9_EmptyTextStep]_vars

\* a message without text has been handled for a user who still has no session
C9_Witness ==
    /\ last.handler = "handle_message"
    /\ last.branch = "ignored"
    /\ ~HasSession(last.user)
    /\ DOMAIN user_sessions # {}

----------------------------------------------------------------------------
(* C10 *)

\* C10: when the events of a user are handled one at a time, after k <= 15
\* texts since the history was empty the history is the k exchanges in order of
\* arrival, user turn then assistant turn, the last one without its assistant
\* turn while its completion call is in flight: 2k entries once all are
\* answered, none dropped.
C10_SerialHistory ==
    \A u \in DOMAIN user_sessions :
        LET k == Len(dialog[u])
            h == user_sessions[u].messages
        IN  k <= 15 =>
              /\ Len(h) = IF tasks = <<>> THEN 2 * k ELSE 2 * k - 1
              /\ \A j \in 1..k :
                    /\ h[2 * j - 1] = Turn("user", dialog[u][j].text)
                    /\ 2 * j <= Len(h) =>
                          /\ dialog[u][j].answer # None
                          /\ h[2 * j] = Turn("assistant", dialog[u][j].answer[1])

\* the 15th text since the history was empty has been answered: 30 entries
C10_Witness ==
    /\ nmsgs >= 1
    /\ tasks = <<>>
    /\ Len(dialog["u1"]) = 15
    /\ Len(user_sessions["u1"].messages) = 30
    /\ last.branch \in {"try", "except"}

----------------------------------------------------------------------------
(* C11 *)

\* the history of u before the step; empty when the step creates the session
C11_Before(u) == IF HasSession(u) THEN user_sessions[u].messages ELSE <<>>

\* the last min(Len(s), 30) entries of s, in their order
C11_Last30(s) ==
    LET m == IF Len(s) < 30 THEN Len(s) ELSE 30
    IN  [j \in 1..m |-> s[Len(s) - m + j]]

C11_RequestStep ==
    \A u \in Users, t \in MessageTexts \ FalsyTexts :
        (IsMessageStep /\ last'.user = u /\ MessageStep(u, t)) =>
            LET request == tasks'[Len(tasks')].request
                full == Append(C11_Before(u), [role |-> "user", content |-> t[1]])
            IN  /\ Len(tasks') = Len(tasks) + 1
                /\ Len(request) <= 30
                /\ request[Len(request)] = [role |-> "user", content |-> t[1]]
                /\ request = C11_Last30(full)
                /\ Len(full) <= 30 => request = full
                /\ request = user_sessions'[u].messages

\* C11: the messages argument of each completion call is the history after the
\* user turn was appended and the history truncated: at most 30 entries, the
\* last one the user turn of the text just received, and equal to the last
\* min(n, 30) entries, in order, of the history before the text followed by
\* that user turn (n its length); nothing is dropped when n <= 30.
C11_RequestIsTruncatedHistory == [][C11_RequestStep]_vars

\* a completion call was made with 30 entries, the oldest turn of the history
\* dropped by the truncation
C11_Witness ==
    /\ last.handler = "handle_message" /\ last.branch = "await"
    /\ tasks # <<>>
    /\ LET request == tasks[Len(tasks)].request
       IN  /\ Len(request) = 30
           /\ request[1] = Turn("assistant", PastAnswer(1))
           /\ request[30] = Turn("user", Str("hi"))

----------------------------------------------------------------------------
(* C12 *)

\* the payloads of the two keyboards, each with the branch of handle_callbacks
\* that is its own, the text that branch sends and the code it stores
C12_Payloads ==
    { [data |-> <<"change_model">>, branch |-> "change_model",
       reply |-> <<"choose a model">>, code |-> <<>>],
      [data |-> <<"new_chat">>, branch |-> "new_chat",
       reply |-> <<"started a new chat">>, code |-> <<>>],
      [data |-> <<"about_bot">>, branch |-> "about_bot",
       reply |-> <<"about">>, code |-> <<>>],
      [data |-> <<"back_to_menu">>, branch |-> "back_to_menu",
       reply |-> <<"main menu">>, code |-> <<>>],
      [data |-> <<"set_model", ":", "gpt5_instance">>, branch |-> "set_model",
       reply |-> <<"model changed to", ":", " ", "GPT-5 Instance">>,
       code |-> <<"gpt5_instance">>],
      [data |-> <<"set_model", ":", "gpt5_syncing">>, branch |-> "set_model",
       reply |-> <<"model changed to", ":", " ", "GPT-5 Syncing">>,
       code |-> <<"gpt5_syncing">>],
      [data |-> <<"set_model", ":", "gpt4o">>, branch |-> "set_model",
       reply |-> <<"model changed to", ":", " ", "GPT-4o">>,
       code |-> <<"gpt4o">>] }

\* the payloads of the buttons of a keyboard
C12_Emitted(kb) == { kb[i].callback_data : i \in 1..Len(kb) }

\* the keyboards the program can build in this state
C12_Keyboards ==
    {main_menu} \cup { model_menu(user_sessions[u].model) : u \in DOMAIN user_sessions }

C12_EmittedAreRouted ==
    /\ \A kb \in C12_Keyboards :
          \A d \in C12_Emitted(kb) : \E p \in C12_Payloads : p.data = d
    /\ C12_Emitted(main_menu) =
          { <<"change_model">>, <<"new_chat">>, <<"about_bot">> }
    /\ last.markup # None =>
          \A d \in C12_Emitted(Keyboard(last.markup[1])) :
              /\ Some(d) \in CallbackData
              /\ \E p \in C12_Payloads : p.data = d /\ CallbackBranch(d) = p.branch

C12_RoutedStep ==
    \A u \in Users, p \in C12_Payloads :
        (IsCallbackStep /\ last'.user = u /\ CallbackStep(u, Some(p.data))) =>
            /\ last'.branch = p.branch
            /\ last'.reply = Some(p.reply)
            /\ p.branch = "set_model" => user_sessions'[u].model = p.code
            /\ p.branch # "set_model" =>
                  user_sessions'[u].model = (IF HasSession(u) THEN user_sessions[u].model
                                             ELSE <<"gpt4o">>)
            /\ p.branch = "new_chat" <=>
                  (user_sessions'[u].messages = <<>> /\ dialog'[u] = <<>>
                   /\ last'.reply = Some(<<"started a new chat">>))
            /\ p.branch = "change_model" <=>
                  last'.markup = Some(ModelMenu(user_sessions'[u].model))

\* C12: every payload that main_menu or model_menu puts on a button
\* (change_model, new_chat, about_bot, back_to_menu, set_model:<code> for the
\* three codes) is handled by its own branch of handle_callbacks, never by the
\* default branch or another payload's branch, and set_model:<code> sets the
\* modelCode of the sender to exactly <code>.
C12_PayloadRoundTrip == []C12_EmittedAreRouted /\ [][C12_RoutedStep]_vars

\* the model menu is shown with the model that one of its own buttons set
C12_Witness ==
    /\ last.handler = "handle_callbacks" /\ last.branch = "change_model"
    /\ last.markup = Some(ModelMenu(<<"gpt5_syncing">>))
    /\ \E i \in 1..Len(Keyboard(last.markup[1])) :
          Keyboard(last.markup[1])[i].callback_data = <<"set_model", ":", "gpt5_syncing">>

----------------------------------------------------------------------------
(* C13 *)

C13_SessionsKept ==
    \A u \in Users : HasSession(u) => u \in DOMAIN user_sessions'

\* C13: once the store holds a session for a user id it holds one for that id
\* in every later state: no step removes a session.
C13_SessionsNeverRemoved == [][C13_SessionsKept]_vars

\* both users have a session, and new_chat, the only step that resets anything,
\* has just been handled for one of them while the other has a history
C13_Witness ==
    /\ DOMAIN user_sessions = Users
    /\ last.handler = "handle_callbacks" /\ last.branch = "new_chat"
    /\ \E u \in Users : u # last.user /\ user_sessions[u].messages # <<>>

----------------------------------------------------------------------------
(* C14 *)

\* user and assistant turns alternate, starting with a user turn
C14_Alternates(h) ==
    \A j \in 1..Len(h) : h[j].role = (IF j % 2 = 1 THEN "user" ELSE "assistant")

\* a handler of u is suspended at the completion call and its user turn is
\* still the last entry of the history
C14_Pending(u) ==
    /\ HasSession(u)
    /\ \E i \in 1..Len(tasks) : tasks[i].user_id = u /\ tasks[i].k = Len(dialog[u])
    /\ Len(dialog[u]) > 0
    /\ dialog[u][Len(dialog[u])].answer = None
    /\ user_sessions[u].messages # <<>>
    /\ user_sessions[u].messages[Len(user_sessions[u].messages)].role = "user"

C14_RaceStep ==
    \A u \in Users :
        (C14_Pending(u) /\ IsMessageStep /\ last'.user = u /\ last'.branch = "await") =>
            LET h == user_sessions'[u].messages
            IN  /\ Len(tasks') = Len(tasks) + 1
                /\ Len(h) >= 2
                /\ h[Len(h)].role = "user" /\ h[Len(h) - 1].role = "user"
                /\ ~C14_Alternates(h)

\* the reply to a text that another text has followed is appended after the
\* later text, not after the text it answers
C14_LateReplyStep ==
    \A u \in Users :
        (/\ last'.handler = "handle_message" /\ last'.branch \in {"try", "except"}
         /\ last'.user = u
         /\ \E i \in 1..Len(tasks) :
               /\ tasks' = RemoveAt(tasks, i)
               /\ tasks[i].user_id = u
               /\ tasks[i].k > 0 /\ tasks[i].k < Len(dialog[u]))
        => LET h == user_sessions'[u].messages
           IN  /\ h = Append(user_sessions[u].messages,
                              [role |-> "assistant", content |-> last'.reply[1]])
               /\ h # Flatten(dialog'[u])

\* C14: two handle_message runs of one user do interleave at the completion
\* call: a text received while an earlier text of the same user is unanswered
\* is appended right after that user turn, so two user turns are adjacent and
\* the history is no alternation of user and assistant turns, and the reply to
\* the earlier text is appended after the later text.
C14_InterleavingBreaksAlternation == [][C14_RaceStep /\ C14_LateReplyStep]_vars

\* from an empty store: two texts, then the reply to the first: user, user,
\* assistant, the second text still unanswered
C14_Witness ==
    /\ HasSession("u1")
    /\ Len(user_sessions["u1"].messages) = 3
    /\ user_sessions["u1"].messages[1].role = "user"
    /\ user_sessions["u1"].messages[2].role = "user"
    /\ user_sessions["u1"].messages[3].role = "assistant"
    /\ Len(dialog["u1"]) = 2
    /\ dialog["u1"][1].answer # None /\ dialog["u1"][2].answer = None
    /\ Len(tasks) = 1

----------------------------------------------------------------------------
(* C15 *)

\* C15: the history of a user holds only turns of texts received since the
\* new_chat last handled for that user (dialog[u]: the texts received since
\* then, with the answers given to them), also when the completion call of
\* an earlier text was in flight at that new_chat: its late reply is not
\* written into the cleared conversation.  (Stated as claimed; the code breaks
\* it: bot.py:215 appends the reply of the suspended handler to the new list
\* that bot.py:133 stored.)
C15_OnlyTurnsAfterNewChat ==
    \A u \in DOMAIN user_sessions :
        LET h == user_sessions[u].messages
            own == Flatten(dialog[u])
        IN  /\ Len(h) <= Len(own)
            /\ \A j \in 1..Len(h) : \E n \in 1..Len(own) : own[n] = h[j]

----------------------------------------------------------------------------
(* C16 *)

\* what is sent for each outcome of the completion call
C16_Expected(r) ==
    IF r.raised \/ r.content = None THEN <<"warning: error while calling the model">>
    ELSE IF r.content[1] \in { <<"ok">>, <<" ", "ok", "\n">> } THEN <<"ok">>
    ELSE <<"?">>

\* the handlers suspended at the completion call change only when a text
\* starts one call or one call ends
C16_CallStep ==
    /\ (IsMessageStep /\ last'.branch = "await") =>
          /\ Len(tasks') = Len(tasks) + 1
          /\ \A i \in 1..Len(tasks) : tasks'[i] = tasks[i]
          /\ last'.reply = None
    /\ (IsMessageStep /\ last'.branch = "ignored") => tasks' = tasks
    /\ last'.handler \in {"cmd_start", "handle_callbacks"} => Len(tasks') = Len(tasks)

\* a call that ends is not issued again, and its handler sends one reply
C16_ReplyStep ==
    \A i \in 1..Len(tasks), r \in CompletionResults :
        (/\ last'.handler = "handle_message" /\ last'.branch \in {"try", "except"}
         /\ handle_message_resume(i, r))
        => /\ tasks' = RemoveAt(tasks, i)
           /\ last'.user = tasks[i].user_id
           /\ last'.reply = Some(C16_Expected(r))
           /\ last'.branch = (IF r.raised \/ r.content = None THEN "except" ELSE "try")

\* the replies sent so far: one per call that has ended
C16_Replies == nmsgs - Len(tasks)

\* whenever calls are pending, a state follows where none is: every handler
\* that was suspended has sent its reply and ended (only its own resumption
\* takes a handler out of tasks)
C16_EveryCallAnswered ==
    (tasks # <<>>) ~> (tasks = <<>> /\ C16_Replies = nmsgs)

\* C16: each non-empty text starts exactly one completion call, and a call
\* that failed is not issued again; if every call returns or fails, one reply
\* per text is eventually sent, the trimmed content on success and the
\* warning text on failure: no outcome of the call ends the handler without
\* that reply.
C16_OneCallOneReply ==
    /\ [][C16_CallStep /\ C16_ReplyStep]_vars
    /\ C16_EveryCallAnswered

\* two texts were received; one call failed and one returned text with
\* whitespace around it: both were answered
C16_Witness ==
    /\ nmsgs = 2 /\ tasks = <<>>
    /\ Len(dialog["u1"]) = 2
    /\ dialog["u1"][1].answer = Some(<<"warning: error while calling the model">>)
    /\ dialog["u1"][2].answer = Some(<<"ok">>)
    /\ last.handler = "handle_message" /\ last.branch = "try"
    /\ last.reply = Some(<<"ok">>)

----------------------------------------------------------------------------
(* C17 *)

\* the sessions a step changes or creates
C17_Touched ==
    { v \in Users :
        \/ HasSession(v) /\ user_sessions'[v] # user_sessions[v]
        \/ ~HasSession(v) /\ v \in DOMAIN user_sessions' }

C17_IsolationStep ==
    /\ C17_Touched \subseteq {last'.user}
    /\ (IsMessageStep /\ last'.branch = "await") =>
          LET u == last'.user
              sent == tasks'[Len(tasks')]
          IN  /\ sent.user_id = u
              /\ sent.request = user_sessions'[u].messages
              /\ Len(C11_Before(u)) < 30 =>
                    /\ SubSeq(sent.request, 1, Len(sent.request) - 1) = C11_Before(u)
                    /\ sent.request[Len(sent.request)].role = "user"
    /\ last'.handler = "handle_message" /\ last'.branch \in {"try", "except"} =>
          \E i \in 1..Len(tasks) : tasks' = RemoveAt(tasks, i) /\ tasks[i].user_id = last'.user

\* C17: an event of user A (start, a callback, a text, the outcome of the
\* completion call of A's text) changes or creates the session of no other
\* user, and the history sent with the completion call of A's text is the
\* history of A's session: A's earlier turns and the new user turn.
C17_SessionsIsolated == [][C17_IsolationStep]_vars

\* u2 has had a text answered while u1 keeps the model and the conversation
\* it had
C17_Witness ==
    /\ DOMAIN user_sessions = Users
    /\ last.user = "u2" /\ last.handler = "handle_message" /\ last.branch = "try"
    /\ user_sessions["u2"].model = <<"gpt4o">>
    /\ user_sessions["u2"].messages =
          << Turn("user", <<"hi">>), Turn("assistant", <<"ok">>) >>
    /\ user_sessions["u1"].model = <<"gpt5_syncing">>
    /\ user_sessions["u1"].messages =
          << Turn("user", PastText(1)), Turn("assistant", PastAnswer(1)) >>

----------------------------------------------------------------------------
(* C18 *)

\* the session of u before the step; the default one when the step creates it
C18_Before(u) ==
    IF HasSession(u) THEN user_sessions[u] ELSE [model |-> <<"gpt4o">>, messages |-> <<>>]

\* payloads that start with set_model: and the four menu payloads
C18_SetModelData == { c.data : c \in SetModelCases }
C18_ReadOnlyData == { <<"change_model">>, <<"about_bot">>, <<"back_to_menu">> }

C18_WritersStep ==
    \A u \in DOMAIN user_sessions' :
        /\ user_sessions'[u].messages # C18_Before(u).messages =>
              /\ last'.user = u
              /\ \/ last'.handler = "handle_message"
                       /\ last'.branch \in {"await", "try", "except"}
                 \/ last'.handler = "handle_callbacks" /\ last'.branch = "new_chat"
        /\ user_sessions'[u].model # C18_Before(u).model =>
              /\ last'.user = u
              /\ last'.handler = "handle_callbacks" /\ last'.branch = "set_model"

C18_ReadersStep ==
    /\ last'.handler = "cmd_start" =>
          user_sessions'[last'.user] = C18_Before(last'.user)
    /\ IsCallbackStep =>
          \A u \in Users :
              /\ \A d \in C18_ReadOnlyData :
                    (last'.user = u /\ CallbackStep(u, Some(d))) =>
                        user_sessions'[u] = C18_Before(u)
              /\ \A d \in C18_SetModelData :
                    (last'.user = u /\ CallbackStep(u, Some(d))) =>
                        user_sessions'[u].messages = C18_Before(u).messages
              /\ (last'.user = u /\ CallbackStep(u, Some(<<"new_chat">>))) =>
                    user_sessions'[u].model = C18_Before(u).model
    /\ (IsMessageStep /\ last'.branch = "ignored") => user_sessions' = user_sessions

\* C18: the history of a user changes only in steps of that user's non-empty
\* texts (the user turn, then the assistant turn) and of that user's new_chat;
\* the modelCode only in steps of that user's set_model:<code>; start,
\* change_model, about_bot and back_to_menu leave the modelCode and history
\* of an existing session as they are and give a new user the default
\* session; set_model leaves the history as it is.
C18_OnlyDesignatedEventsMutate == [][C18_WritersStep /\ C18_ReadersStep]_vars

\* a session with a chosen model and a turn in its history has gone through
\* a menu callback that only reads it
C18_Witness ==
    /\ HasSession("u1")
    /\ user_sessions["u1"].model = <<"gpt5_instance">>
    /\ user_sessions["u1"].messages # <<>>
    /\ last.handler = "handle_callbacks" /\ last.branch = "back_to_menu"

----------------------------------------------------------------------------
(* C19 *)

\* the provider ids of the registry, by model code
C19_Resolve(code) ==
    IF code = <<"gpt5_instance">> THEN <<"gpt-4o-mini">>
    ELSE IF code = <<"gpt5_syncing">> THEN <<"gpt-4.1">>
    ELSE <<"gpt-4o">>

C19_RequestModelStep ==
    /\ (IsMessageStep /\ last'.branch = "await") =>
          LET u == last'.user
              sent == tasks'[Len(tasks')]
          IN  /\ Len(tasks') = Len(tasks) + 1
              /\ sent.model_code = C18_Before(u).model
              /\ sent.openai_model_id = C19_Resolve(C18_Before(u).model)
              /\ user_sessions'[u].model = C18_Before(u).model
    /\ ~(last'.handler = "handle_message" /\ last'.branch \in {"try", "except"}) =>
          \A i \in 1..Len(tasks) :
              /\ i <= Len(tasks')
              /\ tasks'[i].openai_model_id = tasks[i].openai_model_id
              /\ tasks'[i].request = tasks[i].request
    /\ (last'.handler = "handle_message" /\ last'.branch \in {"try", "except"}) =>
          \E i \in 1..Len(tasks) : tasks' = RemoveAt(tasks, i)

\* C19: the provider model id of a completion request is the resolution of
\* the modelCode the session of the sender has when handle_message starts;
\* no later step changes a request that is in flight, so a set_model handled
\* meanwhile shows only in the request of the next text of the user.
C19_RequestModelFixedAtStart == [][C19_RequestModelStep]_vars

\* set_model:gpt5_syncing was handled while a request for gpt-4o was in
\* flight, and the next text was sent for gpt-4.1; the first is still gpt-4o
C19_Witness ==
    /\ Len(tasks) = 2
    /\ tasks[1].openai_model_id = <<"gpt-4o">>
    /\ tasks[2].openai_model_id = <<"gpt-4.1">>
    /\ tasks[1].user_id = "u1" /\ tasks[2].user_id = "u1"
    /\ user_sessions["u1"].model = <<"gpt5_syncing">>
    /\ last.handler = "handle_message" /\ last.branch = "await"

----------------------------------------------------------------------------
(* C20 *)

\* new is a suffix of old followed by one more turn
C20_SuffixPlusOne(old, new) ==
    /\ new # <<>>
    /\ \E d \in 0..Len(old) :
          SubSeq(new, 1, Len(new) - 1) = SubSeq(old, d + 1, Len(old))

C20_HistoryStep ==
    \A u \in DOMAIN user_sessions' :
        LET old == C11_Before(u)
            new == user_sessions'[u].messages
        IN  /\ \/ new = old
               \/ /\ new = <<>>
                  /\ last'.user = u
                  /\ last'.handler = "handle_callbacks" /\ last'.branch = "new_chat"
               \/ C20_SuffixPlusOne(old, new)
            \* a text and a reply are never dropped: each is the turn appended
            /\ (last'.user = u /\ last'.handler = "handle_message"
                  /\ last'.branch \in {"await", "try", "except"}) =>
                  /\ C20_SuffixPlusOne(old, new)
                  /\ new[Len(new)].role =
                        (IF last'.branch = "await" THEN "user" ELSE "assistant")
                  /\ last'.branch # "await" =>
                        /\ new[Len(new)].content = last'.reply[1]
                        /\ SubSeq(new, 1, Len(new) - 1) = old

\* C20: in every step of every interleaving the history of a session stays
\* as it is, becomes empty (only in a step of new_chat of that user), or
\* becomes a suffix of what it was followed by one appended turn: turns leave
\* only at the old end, by the truncation, and no handler overwrites a turn
\* another handler of the same user has appended.
C20_NoTurnLostOrReordered == [][C20_HistoryStep]_vars

\* two texts were in flight together at the edge of the window and both were
\* answered: the two user turns and the two assistant turns are all there
C20_Witness ==
    /\ HasSession("u1") /\ tasks = <<>>
    /\ LET h == user_sessions["u1"].messages
       IN  /\ Len(h) >= 30
           /\ h[Len(h) - 3].role = "user" /\ h[Len(h) - 2].role = "user"
           /\ h[Len(h) - 1].role = "assistant" /\ h[Len(h)].role = "assistant"
           /\ h[Len(h) - 4] = Turn("assistant", PastAnswer(PrefillExchanges))

====
